---- MODULE Spec2Model ----
(***************************************************************************)
(* Model of the two benchmark tools of the repository:                     *)
(*   - experiments/rocksdb-merge-bench/merge_bench.cc  (specification Spec)*)
(*   - experiments/lsm-space-amp/space_amp.cc          (specification      *)
(*     SpecSA)                                                             *)
(* The storage engine is the external collaborator: it is modelled by the  *)
(* per-operation contract the tools rely on (atomic Put / Merge / Get,     *)
(* deferred merge resolution through the registered merge operator, and a  *)
(* status that each call returns).                                         *)
(***************************************************************************)
EXTENDS Integers, Sequences, FiniteSets, TLC

\* ------------------------------------------------------------- bounds ----
\* Largest --threads value explored.
MaxThreads == 2
\* Largest --keys value explored (also the size of the modelled key universe).
MaxKeys == 2
\* Iterations the workers may start, all together, on one engine instance
\* (the real loops are bounded only by the clock).
MaxOps == 2

\* ---------------------------------------------------- merge_bench: data --
\* sizeof(uint64_t)
WordBytes == 8
ByteBase == 256

Min(a, b) == IF a < b THEN a ELSE b

\* Little-endian value of the first n bytes of s (Horner form).
RECURSIVE LittleEndian(_, _)
LittleEndian(s, n) ==
    IF n = 0 \/ s = <<>> THEN 0
    ELSE Head(s) + ByteBase * LittleEndian(Tail(s), n - 1)

\* uint64_t Decode(const Slice&): memcpy of min(size, 8) bytes into x = 0.
Decode(value) == LittleEndian(value, Min(Len(value), WordBytes))

RECURSIVE Bytes(_, _)
Bytes(v, n) == IF n = 0 THEN <<>> ELSE <<v % ByteBase>> \o Bytes(v \div ByteBase, n - 1)

\* std::string Encode(uint64_t): the 8 bytes of the value.
Encode(value) == Bytes(value, WordBytes)

\* kWorkloads: name and read ratio (in percent).
kWorkloads ==
    << [name |-> "10/90", read_ratio |-> 10],
       [name |-> "50/50", read_ratio |-> 50],
       [name |-> "90/10", read_ratio |-> 90] >>

\* SelectWorkloads(filter): the selected workloads; <<>> stands for the throw.
SelectWorkloads_Lenient(filter) ==
    IF filter = "" \/ \A n \in 1 .. Len(kWorkloads) : kWorkloads[n].name # filter
    THEN kWorkloads
    ELSE SelectSeq(kWorkloads, LAMBDA w : w.name = filter)

SelectWorkloads(filter) ==
    IF filter = "" THEN kWorkloads
    ELSE SelectSeq(kWorkloads, LAMBDA w : w.name = filter)

\* The uint64_t a Slice decodes to, as its 8 bytes: memcpy of min(size, 8)
\* bytes into x = 0.
DecodeWord(value) == [n \in 1 .. WordBytes |-> IF n <= Len(value) THEN value[n] ELSE 0]

\* uint64_t addition, byte by byte with carry; the carry out of the last byte
\* is dropped (unsigned wrap-around).
RECURSIVE AddBytes(_, _, _)
AddBytes(a, b, carry) ==
    IF a = <<>> THEN <<>>
    ELSE LET sum == Head(a) + Head(b) + carry
         IN  <<sum % ByteBase>> \o AddBytes(Tail(a), Tail(b), sum \div ByteBase)

RECURSIVE CarryOut(_, _, _)
CarryOut(a, b, carry) ==
    IF a = <<>> THEN carry
    ELSE CarryOut(Tail(a), Tail(b), (Head(a) + Head(b) + carry) \div ByteBase)

\* accumulator += x
AddWord_Saturating(a, b) ==
    IF CarryOut(a, b, 0) = 0 THEN AddBytes(a, b, 0) ELSE [n \in 1 .. WordBytes |-> ByteBase - 1]

AddWord(a, b) == AddBytes(a, b, 0)

\* CountMergeOperator::FullMergeV2: existing value (if any) plus every operand,
\* accumulated in a uint64_t; new_value is the 8 bytes of the accumulator.
RECURSIVE SumDecoded(_, _)
SumDecoded(accumulator, operand_list) ==
    IF operand_list = <<>> THEN accumulator
    ELSE SumDecoded(AddWord(accumulator, DecodeWord(Head(operand_list))), Tail(operand_list))

FullMergeV2_DropBase(has_existing, existing_value, operand_list) ==
    SumDecoded(DecodeWord(<<>>), operand_list)

FullMergeV2(has_existing, existing_value, operand_list) ==
    SumDecoded(IF has_existing
               THEN AddWord(DecodeWord(<<>>), DecodeWord(existing_value))
               ELSE DecodeWord(<<>>),
               operand_list)

\* CountMergeOperator::PartialMerge always declines.
PartialMerge(left_operand, right_operand) == FALSE


\* std::to_string(i): the decimal digits of i, without padding.
RECURSIVE to_string(_)
to_string(i) == IF i < 10 THEN <<i>> ELSE to_string(i \div 10) \o <<i % 10>>

\* ------------------------------------------------- merge_bench: inputs ---
\* The keys a worker can draw when key_space = 0 stand for the whole uint64
\* range; otherwise indices 0 .. key_space - 1.
KeyUniverse == 0 .. MaxKeys - 1
MixFilters == {"", "50/50", "not-a-mix"}
\* Samples of action_dist(rng) in [0, 1), in percent.
Picks == {5, 30, 70, 95}
Workers == 0 .. MaxThreads - 1
\* Values of --seconds explored.
SecondsChoices == {0, 1}

Configs ==
    [ key_space : 0 .. MaxKeys,
      threads : 0 .. MaxThreads,
      seconds_per_phase : SecondsChoices,
      mix_filter : MixFilters ]

\* ------------------------------------------------- merge_bench: state ----
VARIABLES
    cfg,            \* Config, fixed after ParseArguments
    mpc,            \* position of the main thread
    use_merge,      \* argument of the running RunBenchmark
    workloads,      \* result of SelectWorkloads
    widx,           \* index of the workload RunPhase is at (1-based)
    prep_i,         \* loop index of Prepopulate
    db_open,        \* the unique_ptr<DB> holds an open instance
    store,          \* content of the open instance, by key
    puts,           \* history: per key, Puts completed by workers on the instance
    dirs,           \* engine directories existing under db_root
    now,            \* steady_clock
    end_time,       \* deadline of the phase
    nspawned,       \* threads emplaced so far in the phase
    njoined,        \* threads joined so far in the phase
    worker,         \* per worker: position and locals of RunWorker
    thread_stats,   \* result slots of the phase
    metrics,        \* RunPhase's metrics vector
    stdout,         \* result tables printed
    stderr,         \* diagnostics printed
    exit_code       \* how the process ended

mbVars == << cfg, mpc, use_merge, workloads, widx, prep_i, db_open, store, puts, dirs,
             now, end_time, nspawned, njoined, worker, thread_stats, metrics,
             stdout, stderr, exit_code >>

\* ThreadStats{}
ZeroStats == [reads |-> 0, writes |-> 0, merge_operands |-> 0]

\* No thread: the parameters and locals of RunWorker at their defaults.
NoWorker ==
    [ pc |-> "none", use_merge |-> FALSE, read_ratio |-> 0,
      key |-> <<>>, current |-> 0, stats |-> ZeroStats ]

\* A key that was never written.
Absent == [has_base |-> FALSE, base |-> <<>>, ops |-> <<>>]

EmptyStore == [k \in {to_string(i) : i \in KeyUniverse} |-> Absent]

\* No worker has put anything yet.
NoPuts == [k \in {to_string(i) : i \in KeyUniverse} |-> 0]

DbPath(merge) == IF merge THEN "merge" ELSE "rmw"

\* ----------------------------------------------- engine contract ---------
\* Put replaces whatever is stored under the key.
EnginePut(st, key, value) ==
    [st EXCEPT ![key] = [has_base |-> TRUE, base |-> value, ops |-> <<>>]]

\* Merge records one more pending operand; nothing is combined (PartialMerge
\* declines).
EngineMerge(st, key, operand) ==
    [st EXCEPT ![key].ops = Append(@, operand)]

EngineFound(st, key) == st[key].has_base \/ st[key].ops # <<>>

\* Get resolves the pending operands through the merge operator.
EngineGet(st, key) ==
    IF st[key].ops = <<>> THEN st[key].base
    ELSE FullMergeV2(st[key].has_base, st[key].base, st[key].ops)

\* Status values an engine call can return.
GetStatuses(st, key) == {IF EngineFound(st, key) THEN "ok" ELSE "notfound", "error"}
WriteStatuses == {"ok", "error"}
Statuses == {"ok", "notfound", "error"}

\* "<what>: " + status.ToString(), the text of a thrown runtime_error.
Failure(what, status) == what \o ": " \o status


\* ==================================================== space_amp =========
\* ------------------------------------------------------ space_amp: data --
\* kEntryCount, scaled down from 33,554,432.
kEntryCount == 5
\* batch_size in RunOnce, scaled down from 1000.
batch_size == 2
\* Largest --read_ops value explored.
MaxReadOps == 2
\* Longest --block_sizes list explored.
MaxConfigs == 2

kKeySize == 32
kValueSize == 96
kEntryBytes == kKeySize + kValueSize
kRawPayloadBytes == kEntryCount * kEntryBytes

\* The decimal digits of index, least significant first, at least width of
\* them (zero padding).
RECURSIVE DigitsLsb(_, _)
DigitsLsb(index, width) ==
    IF index = 0 /\ width <= 0 THEN <<>>
    ELSE <<index % 10>> \o DigitsLsb(index \div 10, width - 1)

Reverse(s) == [i \in 1 .. Len(s) |-> s[Len(s) + 1 - i]]

\* FormatKey: snprintf("%032llu") into a buffer of kKeySize + 1 chars (the
\* output is cut to kKeySize chars); the key is the Slice of the first
\* kKeySize chars.
FormatKey_Unpadded(index) == Reverse(DigitsLsb(index, 1))

FormatKey(index) == SubSeq(Reverse(DigitsLsb(index, kKeySize)), 1, kKeySize)

\* FillValue: 'a' + ((index + i) % 26) at offset i; letters as 0 .. 25.
FillValue(index) == [j \in 1 .. kValueSize |-> (index + (j - 1)) % 26]

\* ----------------------------------------------------- space_amp: inputs -
BlockSizeChoices == {-1, 0, 4096, 8192}

BlockSizeLists ==
    UNION {[1 .. n -> BlockSizeChoices] : n \in 1 .. MaxConfigs}

SaConfigs ==
    [ block_sizes : BlockSizeLists,
      keep_dbs : BOOLEAN,
      read_ops : 0 .. MaxReadOps ]

\* ------------------------------------------------------ space_amp: state -
VARIABLES
    sa_cfg,         \* Config, fixed after ParseArguments
    sa_pc,          \* position of the (single) thread
    sa_idx,         \* position of main's loop in cfg.block_sizes (1-based)
    sa_i,           \* loop index of the load loop / of the read loop
    sa_batch,       \* the WriteBatch: entries put and not yet cleared
    sa_handles,     \* open handles: "rw" (DB::Open), "ro" (OpenForReadOnly)
    sa_engine,      \* the instance at db_path: batches written, flushed, compacted
    sa_dirs,        \* block sizes whose directory exists under db_root
    sa_result,      \* RunOnce's result
    sa_results,     \* main's results vector
    sa_stdout,      \* rows printed
    sa_stderr,      \* diagnostics printed
    sa_exit         \* how the process ended

saVars == << sa_cfg, sa_pc, sa_idx, sa_i, sa_batch, sa_handles, sa_engine, sa_dirs,
             sa_result, sa_results, sa_stdout, sa_stderr, sa_exit >>

\* Result{}
ZeroResult ==
    [ block_size |-> 0, total_sst_bytes |-> 0, estimated_keys |-> 0,
      table_readers_mem |-> 0, amplification |-> << 0, 1 >>, read_ops_per_sec |-> 0 ]

\* A freshly created instance.
EmptyEngine == [written |-> <<>>, flushed |-> FALSE, compacted |-> FALSE]

BlockSize == sa_cfg.block_sizes[sa_idx]

\* Every (key, value) the instance holds.
RECURSIVE Flatten(_)
Flatten(batches) == IF batches = <<>> THEN <<>> ELSE Head(batches) \o Flatten(Tail(batches))

StoredKeys(engine) == {e.key : e \in {Flatten(engine.written)[n] : n \in 1 .. Len(Flatten(engine.written))}}

\* ------------------------------------------------- merge_bench: main -----
\* The process is gone: its memory is released; the disk and the output stay.
Ended(code, message) ==
    /\ mpc' = "exited"
    /\ exit_code' = code
    /\ stderr' = IF message = "" THEN stderr ELSE Append(stderr, message)
    /\ use_merge' = FALSE
    /\ workloads' = <<>>
    /\ widx' = 0
    /\ prep_i' = 0
    /\ db_open' = FALSE
    /\ store' = EmptyStore
    /\ puts' = NoPuts
    /\ end_time' = 0
    /\ nspawned' = 0
    /\ njoined' = 0
    /\ worker' = [t \in Workers |-> NoWorker]
    /\ thread_stats' = [t \in Workers |-> ZeroStats]
    /\ metrics' = <<>>
    /\ UNCHANGED << saVars, cfg, now >>

\* main: SelectWorkloads(cfg.mix_filter), then RunBenchmark(cfg, false, ...).
Main_Select ==
    /\ mpc = "main"
    /\ LET selected == SelectWorkloads(cfg.mix_filter) IN
         IF selected = <<>>
         THEN Ended("EXIT_FAILURE", "Unknown workload mix filter") /\ UNCHANGED << dirs, stdout >>
         ELSE /\ workloads' = selected
              /\ use_merge' = FALSE
              /\ mpc' = "rb_open"
              /\ UNCHANGED << saVars, cfg, widx, prep_i, db_open, store, puts, dirs, now, end_time,
                              nspawned, njoined, worker, thread_stats, metrics,
                              stdout, stderr, exit_code >>

\* RunBenchmark up to the construction of the unique_ptr: remove a stale
\* directory, DB::Open with error_if_exists.
RunBenchmark_Open ==
    /\ mpc = "rb_open"
    /\ \E status \in WriteStatuses :
         IF status = "ok"
         THEN /\ dirs' = dirs \cup {DbPath(use_merge)}
              /\ db_open' = TRUE
              /\ store' = EmptyStore
              /\ puts' = NoPuts
              /\ prep_i' = 0
              /\ mpc' = "prepopulate"
              /\ UNCHANGED << saVars, cfg, use_merge, workloads, widx, now, end_time, nspawned,
                              njoined, worker, thread_stats, metrics, stdout, stderr, exit_code >>
         ELSE /\ Ended("EXIT_FAILURE", "Failed to open DB")
              /\ dirs' \in {dirs \ {DbPath(use_merge)}, dirs \cup {DbPath(use_merge)}}
              /\ UNCHANGED stdout

\* One iteration of Prepopulate's loop: Put(to_string(i), Encode(0)).
Prepopulate_Put ==
    /\ mpc = "prepopulate"
    /\ prep_i < cfg.key_space
    /\ \E status \in WriteStatuses :
         IF status = "ok"
         THEN /\ store' = EnginePut(store, to_string(prep_i), Encode(0))
              /\ prep_i' = prep_i + 1
              /\ UNCHANGED << puts, saVars, cfg, mpc, use_merge, workloads, widx, db_open, dirs, now,
                              end_time, nspawned, njoined, worker, thread_stats,
                              metrics, stdout, stderr, exit_code >>
         ELSE Ended("EXIT_FAILURE", "Failed to prepopulate key") /\ UNCHANGED << dirs, stdout >>

\* Prepopulate returns; RunPhase starts with an empty metrics vector.
Prepopulate_Return ==
    /\ mpc = "prepopulate"
    /\ prep_i = cfg.key_space
    /\ metrics' = <<>>
    /\ widx' = 1
    /\ mpc' = "Setup"
    /\ UNCHANGED << saVars, cfg, use_merge, workloads, prep_i, db_open, store, puts, dirs, now,
                    end_time, nspawned, njoined, worker, thread_stats, stdout,
                    stderr, exit_code >>

\* RunPhase, head of one loop iteration: fresh vectors and the deadline.
RunPhase_Setup ==
    /\ mpc = "Setup"
    /\ thread_stats' = [t \in Workers |-> ZeroStats]
    /\ end_time' = now + cfg.seconds_per_phase
    /\ nspawned' = 0
    /\ njoined' = 0
    /\ mpc' = "Running"
    /\ UNCHANGED << saVars, cfg, use_merge, workloads, widx, prep_i, db_open, store, puts, dirs, now,
                    worker, metrics, stdout, stderr, exit_code >>

\* threads.emplace_back(...): worker t starts RunWorker with zeroed stats;
\* use_merge and workload.read_ratio are passed by value.
RunPhase_Spawn ==
    /\ mpc = "Running"
    /\ nspawned < cfg.threads
    /\ worker' = [worker EXCEPT ![nspawned] =
                    [NoWorker EXCEPT !.pc = "check",
                                     !.use_merge = use_merge,
                                     !.read_ratio = workloads[widx].read_ratio]]
    /\ nspawned' = nspawned + 1
    /\ UNCHANGED << saVars, cfg, mpc, use_merge, workloads, widx, prep_i, db_open, store, puts, dirs,
                    now, end_time, njoined, thread_stats, metrics, stdout, stderr, exit_code >>

\* th.join() blocks until the thread function has returned.
JoinReturns_NoWait(w) == TRUE

JoinReturns(w) == w.pc = "done"

\* for (auto& th : threads) th.join(): the loop blocks on each thread in order
\* and is over once every thread of the phase has finished; joining has no
\* effect on the threads that are still running.
RunPhase_Join ==
    /\ mpc = "Running"
    /\ nspawned = cfg.threads
    /\ \A t \in 0 .. cfg.threads - 1 : JoinReturns(worker[t])
    /\ njoined' = cfg.threads
    /\ mpc' = "Joined"
    /\ UNCHANGED << saVars, cfg, use_merge, workloads, widx, prep_i, db_open, store, puts, dirs,
                    now, end_time, nspawned, worker, thread_stats, metrics, stdout,
                    stderr, exit_code >>

\* for (const auto& s : thread_stats) total += s.field
SumField_Last(slots, n, field) == IF n = 0 THEN 0 ELSE slots[n - 1][field]

RECURSIVE SumField(_, _, _)
SumField(slots, n, field) ==
    IF n = 0 THEN 0 ELSE slots[n - 1][field] + SumField(slots, n - 1, field)

\* The Metrics of one phase; a quotient is kept as <<numerator, denominator>>.
PhaseMetrics(slots, c, merge) ==
    LET total_reads == SumField(slots, c.threads, "reads")
        total_writes == SumField(slots, c.threads, "writes")
        total_merge_ops == SumField(slots, c.threads, "merge_operands")
    IN  [ read_ops_per_sec |-> << total_reads, c.seconds_per_phase >>,
          write_ops_per_sec |-> << total_writes, c.seconds_per_phase >>,
          avg_merge_ops_per_key |->
              IF merge /\ c.key_space > 0
              THEN << total_merge_ops, c.key_space >>
              ELSE << 0, 1 >> ]

\* The summation loop over thread_stats and metrics.push_back.
RunPhase_Aggregate ==
    /\ mpc = "Joined"
    /\ metrics' = Append(metrics, PhaseMetrics(thread_stats, cfg, use_merge))
    /\ mpc' = "Aggregated"
    /\ UNCHANGED << saVars, cfg, use_merge, workloads, widx, prep_i, db_open, store, puts, dirs, now,
                    end_time, nspawned, njoined, worker, thread_stats, stdout,
                    stderr, exit_code >>

\* End of the loop body: the phase's vectors are destroyed; next workload, or
\* return to RunBenchmark.
RunPhase_Next_Reset ==
    /\ mpc = "Aggregated"
    /\ worker' = [t \in Workers |-> NoWorker]
    /\ thread_stats' = [t \in Workers |-> ZeroStats]
    /\ nspawned' = 0
    /\ njoined' = 0
    /\ end_time' = 0
    /\ store' = [k \in DOMAIN store |->
                   IF EngineFound(store, k)
                   THEN [has_base |-> TRUE, base |-> Encode(0), ops |-> <<>>]
                   ELSE store[k]]
    /\ IF widx < Len(workloads)
       THEN widx' = widx + 1 /\ mpc' = "Setup"
       ELSE widx' = widx /\ mpc' = "print"
    /\ UNCHANGED << puts, saVars, cfg, use_merge, workloads, prep_i, db_open, dirs, now,
                    metrics, stdout, stderr, exit_code >>

RunPhase_Next_KeepThreads ==
    /\ mpc = "Aggregated"
    /\ thread_stats' = [t \in Workers |-> ZeroStats]
    /\ nspawned' = 0
    /\ njoined' = 0
    /\ end_time' = 0
    /\ IF widx < Len(workloads)
       THEN widx' = widx + 1 /\ mpc' = "Setup"
       ELSE widx' = widx /\ mpc' = "print"
    /\ UNCHANGED << saVars, cfg, use_merge, workloads, prep_i, db_open, store, puts, dirs, now,
                    worker, metrics, stdout, stderr, exit_code >>

RunPhase_Next ==
    /\ mpc = "Aggregated"
    /\ worker' = [t \in Workers |-> NoWorker]
    /\ thread_stats' = [t \in Workers |-> ZeroStats]
    /\ nspawned' = 0
    /\ njoined' = 0
    /\ end_time' = 0
    /\ IF widx < Len(workloads)
       THEN widx' = widx + 1 /\ mpc' = "Setup"
       ELSE widx' = widx /\ mpc' = "print"
    /\ UNCHANGED << saVars, cfg, use_merge, workloads, prep_i, db_open, store, puts, dirs, now,
                    metrics, stdout, stderr, exit_code >>

\* PrintResults: the title and one row per workload.
RunBenchmark_Print ==
    /\ mpc = "print"
    /\ stdout' = Append(stdout,
                   [ title |-> IF use_merge THEN "Merge" ELSE "Read-Modify-Write",
                     rows |-> [i \in 1 .. Len(workloads) |-> workloads[i].name] ])
    /\ mpc' = "close"
    /\ UNCHANGED << saVars, cfg, use_merge, workloads, widx, prep_i, db_open, store, puts, dirs, now,
                    end_time, nspawned, njoined, worker, thread_stats, metrics,
                    stderr, exit_code >>

\* db.reset()
RunBenchmark_Close ==
    /\ mpc = "close"
    /\ db_open' = FALSE
    /\ store' = EmptyStore
    /\ puts' = NoPuts
    /\ mpc' = "remove"
    /\ UNCHANGED << saVars, cfg, use_merge, workloads, widx, prep_i, dirs, now, end_time,
                    nspawned, njoined, worker, thread_stats, metrics, stdout,
                    stderr, exit_code >>

\* remove_all(db_path) and return to main: the second RunBenchmark, or exit.
RunBenchmark_Remove ==
    /\ mpc = "remove"
    /\ dirs' = dirs \ {DbPath(use_merge)}
    /\ IF ~use_merge
       THEN /\ use_merge' = TRUE
            /\ metrics' = <<>>
            /\ widx' = 0
            /\ mpc' = "rb_open"
            /\ UNCHANGED << saVars, cfg, workloads, prep_i, db_open, store, puts, now, end_time,
                            nspawned, njoined, worker, thread_stats, stderr,
                            exit_code >>
       ELSE Ended("EXIT_SUCCESS", "")
    /\ UNCHANGED stdout


\* ------------------------------------------------ merge_bench: workers ---
\* while (steady_clock::now() < end_time)
LoopCondition_Inclusive(clock, deadline) == clock <= deadline

LoopCondition(clock, deadline) == clock < deadline

\* if (pick < read_ratio)
IsRead(pick, read_ratio) == pick < read_ratio

\* uniform_int_distribution<uint64_t>(0, key_space - 1); key_space - 1 wraps
\* to the largest uint64 when key_space = 0.
KeyDist(key_space) == IF key_space = 0 THEN KeyUniverse ELSE 0 .. key_space - 1

\* db->Put(write_options, key, Encode(current + 1))
RmwPut_Atomic(st, key, current) ==
    EnginePut(st, key, Encode(Decode(EngineGet(st, key)) + 1))

RmwPut_AddTwo(st, key, current) == EnginePut(st, key, Encode(current + 2))

RmwPut(st, key, current) == EnginePut(st, key, Encode(current + 1))

\* db->Merge(write_options, key, Encode(1))
MergeWrite_AsPut(st, key) == EnginePut(st, key, Encode(1))

MergeWrite(st, key) == EngineMerge(st, key, Encode(1))

\* Iterations started on the instance so far: those of the aggregated phases
\* and those of the current phase's workers.
RECURSIVE OpsOfPhases(_)
OpsOfPhases(ms) ==
    IF ms = <<>> THEN 0
    ELSE Head(ms).read_ops_per_sec[1] + Head(ms).write_ops_per_sec[1] + OpsOfPhases(Tail(ms))

RECURSIVE OpsOfWorkers(_, _)
OpsOfWorkers(ws, n) ==
    IF n = 0 THEN 0
    ELSE ws[n - 1].stats.reads + ws[n - 1].stats.writes
         + (IF ws[n - 1].pc \in {"body", "rmw_put"} THEN 1 ELSE 0)
         + OpsOfWorkers(ws, n - 1)

OpsStarted == OpsOfPhases(metrics) + OpsOfWorkers(worker, MaxThreads)

mainVars == << saVars, cfg, mpc, use_merge, workloads, widx, prep_i, db_open, dirs,
               end_time, nspawned, njoined, metrics, stdout, stderr, exit_code >>

\* Loop head, condition true: the worker enters the loop body.
Worker_Iterate(t) ==
    /\ mpc = "Running"
    /\ worker[t].pc = "check"
    /\ LoopCondition(now, end_time)
    /\ OpsStarted < MaxOps
    /\ worker' = [worker EXCEPT ![t].pc = "body"]
    /\ UNCHANGED << mainVars, store, puts, now, thread_stats >>

\* The lambda captures t by value: worker t assigns thread_stats[t].
SlotOf_Shared(t) == 0

SlotOf(t) == t

\* Loop head, condition false: return stats into thread_stats[t].
Worker_Return(t) ==
    /\ mpc = "Running"
    /\ worker[t].pc = "check"
    /\ ~LoopCondition(now, end_time)
    /\ thread_stats' = [thread_stats EXCEPT ![SlotOf(t)] = worker[t].stats]
    /\ worker' = [worker EXCEPT ![t].pc = "done"]
    /\ UNCHANGED << mainVars, store, puts, now >>

\* An exception leaves the thread function: std::terminate.
Worker_Terminate_Swallow(message) ==
    /\ stderr' = Append(stderr, message)
    /\ UNCHANGED << saVars, cfg, mpc, use_merge, workloads, widx, prep_i, db_open, store, puts,
                    dirs, now, end_time, nspawned, njoined, worker, thread_stats,
                    metrics, stdout, exit_code >>

Worker_Terminate(message) == Ended("SIGABRT", message) /\ UNCHANGED << dirs, stdout >>

\* if (!status.ok() && !status.IsNotFound())
ReadFatal_Strict(status) == status # "ok"

ReadFatal(status) == status # "ok" /\ status # "notfound"

\* if (get_status.ok()) ... else if (!get_status.IsNotFound())
RmwReadFatal(get_status) == get_status # "ok" /\ get_status # "notfound"

\* The draws of an iteration come from the worker's own generator; they are
\* taken together with the first engine call of the iteration. An outcome
\* that does not depend on the key drawn is one step, whatever the key.
\* The read branch: Get, fatal unless ok or not-found; ++stats.reads.
Worker_Read(t) ==
    /\ mpc = "Running"
    /\ worker[t].pc = "body"
    /\ \E pick \in Picks : IsRead(pick, worker[t].read_ratio)
    /\ \E status \in Statuses :
         /\ \E k \in KeyDist(cfg.key_space) : status \in GetStatuses(store, to_string(k))
         /\ IF ReadFatal(status)
            THEN Worker_Terminate(Failure("Read failed", status))
            ELSE /\ worker' = [worker EXCEPT ![t].stats.reads = @ + 1,
                                             ![t].pc = "check"]
                 /\ UNCHANGED << mainVars, store, puts, now, thread_stats >>

\* The merge branch: Merge(key, Encode(1)); ++merge_operands; ++writes.
Worker_Merge(t) ==
    /\ mpc = "Running"
    /\ worker[t].pc = "body"
    /\ worker[t].use_merge
    /\ \E pick \in Picks : ~IsRead(pick, worker[t].read_ratio)
    /\ \E status \in WriteStatuses :
         IF status = "error"
         THEN Worker_Terminate(Failure("Merge failed", status))
         ELSE \E k \in KeyDist(cfg.key_space) :
                /\ store' = MergeWrite(store, to_string(k))
                /\ worker' = [worker EXCEPT ![t].stats.merge_operands = @ + 1,
                                            ![t].stats.writes = @ + 1,
                                            ![t].pc = "check"]
                /\ UNCHANGED << mainVars, puts, now, thread_stats >>

\* The RMW branch, first half: Get into current (not-found leaves 0).
Worker_RmwGet(t) ==
    /\ mpc = "Running"
    /\ worker[t].pc = "body"
    /\ ~worker[t].use_merge
    /\ \E pick \in Picks : ~IsRead(pick, worker[t].read_ratio)
    /\ \E status \in Statuses :
         IF RmwReadFatal(status)
         THEN /\ \E k \in KeyDist(cfg.key_space) : status \in GetStatuses(store, to_string(k))
              /\ Worker_Terminate(Failure("RMW read failed", status))
         ELSE \E k \in KeyDist(cfg.key_space) :
                /\ status \in GetStatuses(store, to_string(k))
                /\ worker' = [worker EXCEPT
                                ![t].key = to_string(k),
                                ![t].current = IF status = "ok"
                                               THEN Decode(EngineGet(store, to_string(k)))
                                               ELSE 0,
                                ![t].pc = "rmw_put"]
                /\ UNCHANGED << mainVars, store, puts, now, thread_stats >>

\* The RMW branch, second half: Put(key, Encode(current + 1)); ++writes.
Worker_RmwPut(t) ==
    /\ mpc = "Running"
    /\ worker[t].pc = "rmw_put"
    /\ \E status \in WriteStatuses :
         IF status = "error"
         THEN Worker_Terminate(Failure("Put failed", status))
         ELSE /\ store' = RmwPut(store, worker[t].key, worker[t].current)
              /\ puts' = [puts EXCEPT ![worker[t].key] = @ + 1]
              /\ worker' = [worker EXCEPT ![t].stats.writes = @ + 1,
                                          ![t].current = 0,
                                          ![t].key = <<>>,
                                          ![t].pc = "check"]
              /\ UNCHANGED << mainVars, now, thread_stats >>

\* ------------------------------------------- merge_bench: environment ----
\* The engine folds the pending operands of a key into its base value (at a
\* flush or compaction) by calling the registered operator.
Engine_Resolve(k) ==
    /\ db_open
    /\ store[k].ops # <<>>
    /\ store' = [store EXCEPT ![k] =
                   [ has_base |-> TRUE,
                     base |-> FullMergeV2(store[k].has_base, store[k].base, store[k].ops),
                     ops |-> <<>> ]]
    /\ UNCHANGED << mainVars, puts, now, worker, thread_stats >>

\* Time passes. Only the comparison with end_time is observed, so the clock
\* is followed up to the deadline.
Tick ==
    /\ mpc = "Running"
    /\ now < end_time
    /\ now' = now + 1
    /\ UNCHANGED << mainVars, store, puts, worker, thread_stats >>

\* ---------------------------------------------------- space_amp: main ---
\* The process is gone: its memory is released; the disk and the output stay.
SA_Ended(code, message) ==
    /\ sa_pc' = "exited"
    /\ sa_exit' = code
    /\ sa_stderr' = IF message = "" THEN sa_stderr ELSE Append(sa_stderr, message)
    /\ sa_idx' = 0
    /\ sa_i' = 0
    /\ sa_batch' = <<>>
    /\ sa_handles' = {}
    /\ sa_engine' = EmptyEngine
    /\ sa_result' = ZeroResult
    /\ sa_results' = <<>>
    /\ UNCHANGED << mbVars, sa_cfg >>

SA_Throw_Continue(message) ==
    /\ sa_stderr' = Append(sa_stderr, message)
    /\ sa_handles' = {}
    /\ sa_batch' = <<>>
    /\ sa_i' = 0
    /\ sa_result' = ZeroResult
    /\ sa_idx' = sa_idx + 1
    /\ sa_pc' = "loop"
    /\ UNCHANGED << mbVars, sa_cfg, sa_engine, sa_dirs, sa_results, sa_stdout, sa_exit >>

\* An exception thrown in RunOnce or BenchmarkReads: the unique_ptr closes the
\* instance, main's handler prints the message and returns EXIT_FAILURE.
SA_Throw(message) == SA_Ended("EXIT_FAILURE", message) /\ UNCHANGED << sa_dirs, sa_stdout >>

\* if (block_size <= 0)
InvalidBlockSize(block_size) == block_size <= 0

\* main's loop is over: the table is printed, one row per result.
SA_Main_Print ==
    /\ sa_pc = "loop"
    /\ sa_idx > Len(sa_cfg.block_sizes)
    /\ sa_stdout' = sa_stdout \o sa_results
    /\ SA_Ended("EXIT_SUCCESS", "")
    /\ UNCHANGED sa_dirs

\* main's loop meets a non-positive block size: return EXIT_FAILURE.
SA_Main_BadBlockSize ==
    /\ sa_pc = "loop"
    /\ sa_idx <= Len(sa_cfg.block_sizes)
    /\ InvalidBlockSize(BlockSize)
    /\ SA_Ended("EXIT_FAILURE", "Block size must be positive")
    /\ UNCHANGED << sa_dirs, sa_stdout >>

\* main calls RunOnce(cfg, block_size).
SA_Main_RunOnce ==
    /\ sa_pc = "loop"
    /\ sa_idx <= Len(sa_cfg.block_sizes)
    /\ ~InvalidBlockSize(BlockSize)
    /\ sa_result' = [ZeroResult EXCEPT !.block_size = BlockSize]
    /\ sa_pc' = "open"
    /\ UNCHANGED << mbVars, sa_cfg, sa_idx, sa_i, sa_batch, sa_handles, sa_engine,
                    sa_dirs, sa_results, sa_stdout, sa_stderr, sa_exit >>

\* RunOnce up to the unique_ptr: remove a stale directory, DB::Open.
RunOnce_Open ==
    /\ sa_pc = "open"
    /\ \E status \in WriteStatuses :
         IF status = "ok"
         THEN /\ sa_dirs' = sa_dirs \cup {BlockSize}
              /\ sa_handles' = sa_handles \cup {"rw"}
              /\ sa_engine' = EmptyEngine
              /\ sa_batch' = <<>>
              /\ sa_i' = 0
              /\ sa_pc' = "load"
              /\ UNCHANGED << mbVars, sa_cfg, sa_idx, sa_result, sa_results, sa_stdout,
                              sa_stderr, sa_exit >>
         ELSE /\ SA_Ended("EXIT_FAILURE", "Failed to open RocksDB")
              /\ sa_dirs' \in {sa_dirs \ {BlockSize}, sa_dirs \cup {BlockSize}}
              /\ UNCHANGED sa_stdout

\* if (batch.Count() >= batch_size)
BatchFull_Late(count) == count > batch_size

BatchFull(count) == count >= batch_size

\* if (batch.Count() > 0)
BatchPending_FullOnly(count) == count >= batch_size

BatchPending(count) == count > 0

\* db->Write(write_options, &batch)
EngineWrite(engine, batch) ==
    [engine EXCEPT !.written = Append(@, batch), !.flushed = FALSE, !.compacted = FALSE]

\* One iteration of the load loop: batch.Put, and Write + Clear of a full batch.
RunOnce_Load ==
    /\ sa_pc = "load"
    /\ sa_i < kEntryCount
    /\ LET put == Append(sa_batch, [key |-> FormatKey(sa_i), value |-> FillValue(sa_i)]) IN
         IF BatchFull(Len(put))
         THEN \E status \in WriteStatuses :
                IF status = "ok"
                THEN /\ sa_engine' = EngineWrite(sa_engine, put)
                     /\ sa_batch' = <<>>
                     /\ sa_i' = sa_i + 1
                     /\ UNCHANGED << mbVars, sa_cfg, sa_pc, sa_idx, sa_handles, sa_dirs,
                                     sa_result, sa_results, sa_stdout, sa_stderr,
                                     sa_exit >>
                ELSE SA_Throw("Write failed")
         ELSE /\ sa_batch' = put
              /\ sa_i' = sa_i + 1
              /\ UNCHANGED << mbVars, sa_cfg, sa_pc, sa_idx, sa_handles, sa_engine,
                              sa_dirs, sa_result, sa_results, sa_stdout, sa_stderr,
                              sa_exit >>

\* After the loop: Write + Clear of what is left in the batch.
RunOnce_Tail ==
    /\ sa_pc = "load"
    /\ sa_i = kEntryCount
    /\ IF BatchPending(Len(sa_batch))
       THEN \E status \in WriteStatuses :
              IF status = "ok"
              THEN /\ sa_engine' = EngineWrite(sa_engine, sa_batch)
                   /\ sa_batch' = <<>>
                   /\ sa_pc' = "flush"
                   /\ UNCHANGED << mbVars, sa_cfg, sa_idx, sa_i, sa_handles, sa_dirs,
                                   sa_result, sa_results, sa_stdout, sa_stderr,
                                   sa_exit >>
              ELSE SA_Throw("Write failed")
       ELSE /\ sa_pc' = "flush"
            /\ UNCHANGED << mbVars, sa_cfg, sa_idx, sa_i, sa_batch, sa_handles,
                            sa_engine, sa_dirs, sa_result, sa_results, sa_stdout,
                            sa_stderr, sa_exit >>

\* db->Flush(flush_options) with wait = true
RunOnce_Flush ==
    /\ sa_pc = "flush"
    /\ \E status \in WriteStatuses :
         IF status = "ok"
         THEN /\ sa_engine' = [sa_engine EXCEPT !.flushed = TRUE]
              /\ sa_pc' = "compact"
              /\ UNCHANGED << mbVars, sa_cfg, sa_idx, sa_i, sa_batch, sa_handles,
                              sa_dirs, sa_result, sa_results, sa_stdout, sa_stderr,
                              sa_exit >>
         ELSE SA_Throw("Flush failed")

\* db->CompactRange(CompactRangeOptions(), nullptr, nullptr)
RunOnce_Compact ==
    /\ sa_pc = "compact"
    /\ \E status \in WriteStatuses :
         IF status = "ok"
         THEN /\ sa_engine' = [sa_engine EXCEPT !.compacted = TRUE]
              /\ sa_pc' = "prop_sst"
              /\ UNCHANGED << mbVars, sa_cfg, sa_idx, sa_i, sa_batch, sa_handles,
                              sa_dirs, sa_result, sa_results, sa_stdout, sa_stderr,
                              sa_exit >>
         ELSE SA_Throw("CompactRange failed")

\* Values the engine may report for rocksdb.total-sst-files-size.
SstSizes(engine, block_size) ==
    LET raw == Len(Flatten(engine.written)) * kEntryBytes IN {raw, raw + block_size}

\* Values the engine may report for rocksdb.estimate-table-readers-mem.
TableMemChoices == {0, 64}

\* GetAggregatedIntProperty("rocksdb.total-sst-files-size", ...)
RunOnce_PropSst ==
    /\ sa_pc = "prop_sst"
    /\ \E got \in BOOLEAN :
         IF got
         THEN /\ \E bytes \in SstSizes(sa_engine, BlockSize) :
                   sa_result' = [sa_result EXCEPT !.total_sst_bytes = bytes]
              /\ sa_pc' = "prop_keys"
              /\ UNCHANGED << mbVars, sa_cfg, sa_idx, sa_i, sa_batch, sa_handles,
                              sa_engine, sa_dirs, sa_results, sa_stdout, sa_stderr,
                              sa_exit >>
         ELSE SA_Throw("Failed to get rocksdb.total-sst-files-size")

\* GetAggregatedIntProperty("rocksdb.estimate-num-keys", ...)
RunOnce_PropKeys ==
    /\ sa_pc = "prop_keys"
    /\ \E got \in BOOLEAN :
         IF got
         THEN /\ sa_result' = [sa_result EXCEPT
                                 !.estimated_keys = Cardinality(StoredKeys(sa_engine))]
              /\ sa_pc' = "prop_mem"
              /\ UNCHANGED << mbVars, sa_cfg, sa_idx, sa_i, sa_batch, sa_handles,
                              sa_engine, sa_dirs, sa_results, sa_stdout, sa_stderr,
                              sa_exit >>
         ELSE SA_Throw("Failed to get rocksdb.estimate-num-keys")

\* GetAggregatedIntProperty("rocksdb.estimate-table-readers-mem", ...) and
\* the amplification, kept as <<total_sst_bytes, kRawPayloadBytes>>.
RunOnce_PropMem ==
    /\ sa_pc = "prop_mem"
    /\ \E got \in BOOLEAN :
         IF got
         THEN /\ \E mem \in TableMemChoices :
                   sa_result' = [sa_result EXCEPT
                                   !.table_readers_mem = mem,
                                   !.amplification = << sa_result.total_sst_bytes,
                                                        kRawPayloadBytes >>]
              /\ sa_pc' = "reset"
              /\ UNCHANGED << mbVars, sa_cfg, sa_idx, sa_i, sa_batch, sa_handles,
                              sa_engine, sa_dirs, sa_results, sa_stdout, sa_stderr,
                              sa_exit >>
         ELSE SA_Throw("Failed to get rocksdb.estimate-table-readers-mem")

\* db.reset(): the read-write handle is closed.
HandlesAfterReset_Leak(handles) == handles

HandlesAfterReset(handles) == handles \ {"rw"}

\* db.reset(), then the read benchmark if cfg.read_ops > 0.
RunOnce_Reset ==
    /\ sa_pc = "reset"
    /\ sa_handles' = HandlesAfterReset(sa_handles)
    /\ sa_pc' = IF sa_cfg.read_ops > 0 THEN "ro_open" ELSE "cleanup"
    /\ UNCHANGED << mbVars, sa_cfg, sa_idx, sa_i, sa_batch, sa_engine, sa_dirs,
                    sa_result, sa_results, sa_stdout, sa_stderr, sa_exit >>

\* BenchmarkReads: DB::OpenForReadOnly.
BenchmarkReads_Open ==
    /\ sa_pc = "ro_open"
    /\ \E status \in WriteStatuses :
         IF status = "ok"
         THEN /\ sa_handles' = sa_handles \cup {"ro"}
              /\ sa_i' = 0
              /\ sa_pc' = "reads"
              /\ UNCHANGED << mbVars, sa_cfg, sa_idx, sa_batch, sa_engine, sa_dirs,
                              sa_result, sa_results, sa_stdout, sa_stderr, sa_exit >>
         ELSE SA_Throw("Failed to reopen RocksDB for reads")

\* Status of a Get on the instance.
SaGetStatuses(engine, key) ==
    {IF key \in StoredKeys(engine) THEN "ok" ELSE "notfound", "error"}

\* std::uniform_int_distribution<uint64_t> dist(0, kEntryCount - 1)
KeyIndexDist_Inclusive == 0 .. kEntryCount

KeyIndexDist == 0 .. kEntryCount - 1

\* if (!status.ok())
ProbeFatal(status) == status # "ok"

\* One iteration of the read loop: dist(rng), FormatKey, Get.
BenchmarkReads_Get ==
    /\ sa_pc = "reads"
    /\ sa_i < sa_cfg.read_ops
    /\ \E key_index \in KeyIndexDist :
         \E status \in SaGetStatuses(sa_engine, FormatKey(key_index)) :
           IF ProbeFatal(status)
           THEN SA_Throw(Failure("Read failed", status))
           ELSE /\ sa_i' = sa_i + 1
                /\ UNCHANGED << mbVars, sa_cfg, sa_pc, sa_idx, sa_batch, sa_handles,
                                sa_engine, sa_dirs, sa_result, sa_results, sa_stdout,
                                sa_stderr, sa_exit >>

\* BenchmarkReads returns: the read-only instance is closed; the rate is kept
\* as its numerator read_ops.
BenchmarkReads_Return ==
    /\ sa_pc = "reads"
    /\ sa_i = sa_cfg.read_ops
    /\ sa_handles' = sa_handles \ {"ro"}
    /\ sa_result' = [sa_result EXCEPT !.read_ops_per_sec = sa_cfg.read_ops]
    /\ sa_pc' = "cleanup"
    /\ UNCHANGED << mbVars, sa_cfg, sa_idx, sa_i, sa_batch, sa_engine, sa_dirs,
                    sa_results, sa_stdout, sa_stderr, sa_exit >>

\* if (!cfg.keep_dbs) remove_all(db_path); return result; results.push_back.
RunOnce_Cleanup ==
    /\ sa_pc = "cleanup"
    /\ IF sa_cfg.keep_dbs
       THEN UNCHANGED << sa_dirs, sa_engine >>
       ELSE sa_dirs' = sa_dirs \ {BlockSize} /\ sa_engine' = EmptyEngine
    /\ sa_results' = Append(sa_results, sa_result)
    /\ sa_result' = ZeroResult
    /\ sa_i' = 0
    /\ sa_idx' = sa_idx + 1
    /\ sa_pc' = "loop"
    /\ UNCHANGED << mbVars, sa_cfg, sa_batch, sa_handles, sa_stdout, sa_stderr, sa_exit >>

\* ------------------------------------------------ merge_bench: spec ------
vars == << mbVars, saVars >>

StartMB ==
    /\ cfg \in Configs
    /\ mpc = "main"
    /\ use_merge = FALSE
    /\ workloads = <<>>
    /\ widx = 0
    /\ prep_i = 0
    /\ db_open = FALSE
    /\ store = EmptyStore
    /\ puts = NoPuts
    /\ dirs \in {{}, {"rmw"}}
    /\ now = 0
    /\ end_time = 0
    /\ nspawned = 0
    /\ njoined = 0
    /\ worker = [t \in Workers |-> NoWorker]
    /\ thread_stats = [t \in Workers |-> ZeroStats]
    /\ metrics = <<>>
    /\ stdout = <<>>
    /\ stderr = <<>>
    /\ exit_code = "running"

Next ==
    \/ Main_Select
    \/ RunBenchmark_Open
    \/ Prepopulate_Put
    \/ Prepopulate_Return
    \/ RunPhase_Setup
    \/ RunPhase_Spawn
    \/ RunPhase_Join
    \/ RunPhase_Aggregate
    \/ RunPhase_Next
    \/ RunBenchmark_Print
    \/ RunBenchmark_Close
    \/ RunBenchmark_Remove
    \/ \E t \in Workers : Worker_Iterate(t)
    \/ \E t \in Workers : Worker_Return(t)
    \/ \E t \in Workers : Worker_Read(t)
    \/ \E t \in Workers : Worker_Merge(t)
    \/ \E t \in Workers : Worker_RmwGet(t)
    \/ \E t \in Workers : Worker_RmwPut(t)
    \/ \E k \in DOMAIN store : Engine_Resolve(k)
    \/ Tick



\* ----------------------------------------------------- space_amp: spec ---
StartSA ==
    /\ sa_cfg \in SaConfigs
    /\ sa_pc = "loop"
    /\ sa_idx = 1
    /\ sa_i = 0
    /\ sa_batch = <<>>
    /\ sa_handles = {}
    /\ sa_engine = EmptyEngine
    /\ sa_dirs \in {{}, {4096}}
    /\ sa_result = ZeroResult
    /\ sa_results = <<>>
    /\ sa_stdout = <<>>
    /\ sa_stderr = <<>>
    /\ sa_exit = "running"

\* merge_bench, not started.
IdleMB ==
    /\ cfg = [key_space |-> 0, threads |-> 0, seconds_per_phase |-> 0, mix_filter |-> ""]
    /\ mpc = "idle"
    /\ use_merge = FALSE
    /\ workloads = <<>>
    /\ widx = 0
    /\ prep_i = 0
    /\ db_open = FALSE
    /\ store = EmptyStore
    /\ puts = NoPuts
    /\ dirs = {}
    /\ now = 0
    /\ end_time = 0
    /\ nspawned = 0
    /\ njoined = 0
    /\ worker = [t \in Workers |-> NoWorker]
    /\ thread_stats = [t \in Workers |-> ZeroStats]
    /\ metrics = <<>>
    /\ stdout = <<>>
    /\ stderr = <<>>
    /\ exit_code = "running"

\* space_amp, not started.
IdleSA ==
    /\ sa_cfg = [block_sizes |-> <<>>, keep_dbs |-> FALSE, read_ops |-> 0]
    /\ sa_pc = "idle"
    /\ sa_idx = 0
    /\ sa_i = 0
    /\ sa_batch = <<>>
    /\ sa_handles = {}
    /\ sa_engine = EmptyEngine
    /\ sa_dirs = {}
    /\ sa_result = ZeroResult
    /\ sa_results = <<>>
    /\ sa_stdout = <<>>
    /\ sa_stderr = <<>>
    /\ sa_exit = "running"

NextSA ==
    \/ SA_Main_Print
    \/ SA_Main_BadBlockSize
    \/ SA_Main_RunOnce
    \/ RunOnce_Open
    \/ RunOnce_Load
    \/ RunOnce_Tail
    \/ RunOnce_Flush
    \/ RunOnce_Compact
    \/ RunOnce_PropSst
    \/ RunOnce_PropKeys
    \/ RunOnce_PropMem
    \/ RunOnce_Reset
    \/ BenchmarkReads_Open
    \/ BenchmarkReads_Get
    \/ BenchmarkReads_Return
    \/ RunOnce_Cleanup

Init == StartMB /\ IdleSA

Spec == Init /\ [][Next]_vars

InitSA == StartSA /\ IdleMB

SpecSA == InitSA /\ [][NextSA]_vars

\* ======================================================= properties ======
\* ------------------------------------------------ merge_bench: helpers ---
\* The value a key resolves to: base value plus all pending operands; 0 for a
\* key that was never written.
Resolved(st, k) == IF EngineFound(st, k) THEN Decode(EngineGet(st, k)) ELSE 0

RECURSIVE SumOver(_, _)
SumOver(st, keys) ==
    IF keys = {} THEN 0
    ELSE LET k == CHOOSE x \in keys : TRUE IN Resolved(st, k) + SumOver(st, keys \ {k})

\* Sum over all keys of the resolved value.
SumResolved == SumOver(store, DOMAIN store)

\* The merge-operand totals of the aggregated phases (key_space > 0).
RECURSIVE MergesOfPhases(_)
MergesOfPhases(ms) ==
    IF ms = <<>> THEN 0
    ELSE Head(ms).avg_merge_ops_per_key[1] + MergesOfPhases(Tail(ms))

RECURSIVE WritesOfPhases(_)
WritesOfPhases(ms) ==
    IF ms = <<>> THEN 0
    ELSE Head(ms).write_ops_per_sec[1] + WritesOfPhases(Tail(ms))

\* Counters of the running workers (their locals, before the slots are
\* written).
RECURSIVE LocalCount(_, _, _)
LocalCount(ws, n, field) ==
    IF n = 0 THEN 0 ELSE ws[n - 1].stats[field] + LocalCount(ws, n - 1, field)

Prepopulated == db_open /\ mpc \in {"Setup", "Running", "Joined", "Aggregated", "print"}

\* ----------------------------------------------------------------- C1 ----
\* C1: merge strategy with one worker thread: at every moment after
\* pre-population of K > 0 keys with 0, the sum over all keys of the fully
\* resolved value equals W, the number of successful merge writes the worker
\* has performed on the instance so far (those of the aggregated phases plus
\* those it has counted in the current phase).
C1_MergeSumSingleThread ==
    (use_merge /\ cfg.threads = 1 /\ cfg.key_space > 0 /\ Prepopulated)
        => SumResolved =
             IF mpc \in {"Setup", "Running", "Joined"}
             THEN MergesOfPhases(metrics) + worker[0].stats.merge_operands
             ELSE MergesOfPhases(metrics)

\* The single worker has performed two merge writes and has been joined.
C1_Witness ==
    /\ use_merge /\ cfg.threads = 1 /\ cfg.key_space = 2
    /\ mpc = "Joined"
    /\ MergesOfPhases(metrics) + thread_stats[0].merge_operands = 2
    /\ SumResolved = 2

\* ----------------------------------------------------------------- C2 ----
\* A worker completes the Put of its read-modify-write.
RmwPutStep(t) == worker[t].pc = "rmw_put" /\ worker'[t].pc = "check"

\* C2: RMW strategy: the Put of a read-modify-write stores the value the
\* worker read at its own Get plus one, whatever has been stored since; no
\* lock excludes another worker's Put between the two. So when the key has
\* meanwhile advanced beyond what the worker read, the Put counts one more
\* write but the sum of the stored values does not grow: an update is lost.
C2_StalePutLosesUpdate ==
    [][\A t \in Workers :
         RmwPutStep(t) =>
           /\ Resolved(store', worker[t].key) = worker[t].current + 1
           /\ worker'[t].stats.writes = worker[t].stats.writes + 1
           /\ Resolved(store, worker[t].key) > worker[t].current
                => SumOver(store', DOMAIN store) <= SumOver(store, DOMAIN store)]_vars

\* Two workers incremented the same key from the same value: both are joined,
\* two writes are counted, the values sum to one.
C2_Witness ==
    /\ ~use_merge /\ cfg.threads = 2 /\ cfg.key_space > 0
    /\ mpc = "Joined"
    /\ thread_stats[0].writes = 1
    /\ thread_stats[1].writes = 1
    /\ WritesOfPhases(metrics) = 0
    /\ SumResolved = 1

\* ----------------------------------------------------------------- C3 ----
\* C3: merge strategy, any number of workers, any interleaving (each Merge
\* call atomic): once all workers of a phase have been joined, the sum over
\* all keys of the resolved value equals the merge-operand count summed over
\* all workers' result slots and over every earlier phase on the instance
\* (K > 0).
C3_MergeSumAfterJoin ==
    (use_merge /\ cfg.key_space > 0 /\ mpc \in {"Joined", "Aggregated", "print"})
        => SumResolved =
             IF mpc = "Joined"
             THEN MergesOfPhases(metrics)
                    + SumField(thread_stats, cfg.threads, "merge_operands")
             ELSE MergesOfPhases(metrics)

\* Two workers merged into the same key in the same phase.
C3_Witness ==
    /\ use_merge /\ cfg.threads = 2 /\ mpc = "Joined"
    /\ thread_stats[0].merge_operands = 1
    /\ thread_stats[1].merge_operands = 1
    /\ \E k \in DOMAIN store : Resolved(store, k) = 2

\* ----------------------------------------------------------------- C4 ----
\* Worker t completes an iteration (the step that increments its counters).
IterationEnds(t) == worker[t].pc \in {"body", "rmw_put"} /\ worker'[t].pc = "check"

\* Worker t leaves its loop and returns its counters.
WorkerReturns(t) == worker[t].pc = "check" /\ worker'[t].pc = "done"

\* C4: the counters of worker t change only in a step of worker t itself (or
\* when the phase's vectors are destroyed); the slot thread_stats[t] is
\* assigned only by worker t, in the step in which it returns, with its final
\* counters, and no other slot changes in that step; the driver takes the
\* slots into the metrics only when every worker of the phase has returned.
C4_CounterOwnership ==
    [][/\ \A t \in Workers :
            worker'[t].stats # worker[t].stats =>
              \/ IterationEnds(t) /\ \A u \in Workers \ {t} : worker'[u] = worker[u]
              \/ worker'[t] = NoWorker
       /\ \A t \in Workers :
            thread_stats'[t] # thread_stats[t] =>
              \/ /\ WorkerReturns(t)
                 /\ thread_stats[t] = ZeroStats
                 /\ thread_stats'[t] = worker[t].stats
                 /\ \A u \in Workers \ {t} : thread_stats'[u] = thread_stats[u]
              \/ thread_stats'[t] = ZeroStats
       /\ Len(metrics') > Len(metrics) =>
            \A t \in 0 .. cfg.threads - 1 :
              worker[t].pc = "done" /\ thread_stats[t] = worker[t].stats]_vars

\* Both workers of a phase have returned different non-zero counters and the
\* driver has aggregated them.
C4_Witness ==
    /\ mpc = "Aggregated" /\ cfg.threads = 2
    /\ thread_stats[0].reads = 1
    /\ thread_stats[1].writes = 1

\* ----------------------------------------------------------------- C5 ----
\* The order of the phase states.
PhaseOrder ==
    /\ mpc' = "Setup" => mpc \in {"Setup", "prepopulate", "Aggregated"}
    /\ mpc' = "Running" => mpc \in {"Running", "Setup"}
    /\ mpc' = "Joined" => mpc \in {"Joined", "Running"}
    /\ mpc' = "Aggregated" => mpc \in {"Aggregated", "Joined"}
    /\ mpc = "Setup" => mpc' \in {"Setup", "Running", "exited"}
    /\ mpc = "Running" => mpc' \in {"Running", "Joined", "exited"}
    /\ mpc = "Joined" => mpc' \in {"Joined", "Aggregated"}

\* C5: whenever the driver is in Joined or Aggregated, every one of the
\* cfg.threads workers of the phase has seen the deadline reached, has left
\* its loop and has returned its final counters; and a phase moves only
\* Setup -> Running -> Joined -> Aggregated.
C5_JoinBarrier ==
    /\ [](mpc \in {"Joined", "Aggregated"} =>
            \A t \in 0 .. cfg.threads - 1 :
              /\ worker[t].pc = "done"
              /\ now >= end_time
              /\ thread_stats[t] = worker[t].stats)
    /\ [][PhaseOrder]_vars

\* The driver has joined two workers that each did an operation.
C5_Witness ==
    /\ mpc = "Joined" /\ cfg.threads = 2
    /\ \A t \in {0, 1} : thread_stats[t].reads + thread_stats[t].writes = 1

\* ----------------------------------------------------------------- C6 ----
InIteration == {"body", "rmw_put"}

\* C6: a worker starts an iteration only while the clock is before the
\* deadline; a started iteration runs to its end (only the failure of its
\* engine call, which ends the process, cuts it short); a worker standing at
\* its loop head with the deadline reached can only return; the deadline of a
\* phase does not move and the clock does not go back. So each worker ends at
\* most one iteration after the deadline.
C6_CooperativeDeadline ==
    [][/\ \A t \in Workers :
            /\ (worker[t].pc = "check" /\ worker'[t].pc \in InIteration) => now < end_time
            /\ (worker[t].pc = "check" /\ now >= end_time /\ worker'[t] # worker[t]) =>
                  worker'[t].pc \in {"done", "none"}
            /\ (worker[t].pc = "body" /\ worker'[t] # worker[t]) =>
                  worker'[t].pc \in {"check", "rmw_put", "none"}
            /\ (worker[t].pc = "rmw_put" /\ worker'[t] # worker[t]) =>
                  worker'[t].pc \in {"check", "none"}
            /\ (worker[t].pc \in InIteration /\ worker'[t].pc = "none") => mpc' = "exited"
       /\ (mpc = "Running" /\ mpc' = "Running") => (end_time' = end_time /\ now' >= now)]_vars

\* An iteration started before the deadline is still running after it.
C6_Witness ==
    /\ mpc = "Running"
    /\ now >= end_time
    /\ \E t \in Workers : worker[t].pc = "rmw_put"

\* -------------------------------------------------- space_amp: helpers ---
\* The dataset in index order.
Dataset == [n \in 1 .. kEntryCount |-> [key |-> FormatKey(n - 1), value |-> FillValue(n - 1)]]

HasNonPositiveBlockSize ==
    \E n \in 1 .. Len(sa_cfg.block_sizes) : sa_cfg.block_sizes[n] <= 0

\* Positions of the thread inside RunOnce (and BenchmarkReads).
InRunOnce ==
    {"open", "load", "flush", "compact", "prop_sst", "prop_keys", "prop_mem", "reset",
     "ro_open", "reads", "cleanup"}

\* ----------------------------------------------------------------- C7 ----
\* C7: if the block-size list holds a value <= 0 at any position, the tool
\* ends with a non-zero exit code and no engine instance is ever created (no
\* handle is ever open) for any block size of the list.
C7_NoInstanceBeforeConfigError ==
    HasNonPositiveBlockSize =>
        /\ sa_handles = {}
        /\ sa_exit # "EXIT_SUCCESS"

\* What the code does: no instance is created for the non-positive block
\* size nor for any block size after it, and the exit code is non-zero.
C7_NoInstanceFromBadPositionOn ==
    [][(sa_pc = "loop" /\ sa_idx <= Len(sa_cfg.block_sizes) /\ BlockSize <= 0)
          => (sa_pc' = "exited" /\ sa_exit' = "EXIT_FAILURE" /\ sa_handles' = {}
              /\ sa_dirs' = sa_dirs)]_vars

\* An instance for the first block size is open while a later block size of
\* the list is non-positive.
C7_Witness ==
    /\ Len(sa_cfg.block_sizes) = 2
    /\ sa_cfg.block_sizes[2] <= 0
    /\ sa_idx = 1
    /\ sa_handles = {"rw"}

\* ----------------------------------------------------------------- C8 ----
\* A property query returns a value into the result.
QueryAnswered ==
    \/ sa_result'.total_sst_bytes # sa_result.total_sst_bytes /\ sa_result'.total_sst_bytes # 0
    \/ sa_result'.estimated_keys # sa_result.estimated_keys /\ sa_result'.estimated_keys # 0
    \/ sa_result'.table_readers_mem # sa_result.table_readers_mem
         /\ sa_result'.table_readers_mem # 0
    \/ sa_result'.amplification # sa_result.amplification
         /\ sa_result'.amplification # ZeroResult.amplification

\* C8: the instance becomes flushed only when every dataset entry has been
\* written to it (the batch buffer empty, the final partial batch included);
\* it becomes compacted only when it is flushed; a property query is answered
\* and the amplification computed only when it is flushed and compacted.
C8_BulkLoadOrdering ==
    [][/\ (sa_engine'.flushed /\ ~sa_engine.flushed) =>
             (Flatten(sa_engine.written) = Dataset /\ sa_batch = <<>> /\ sa_i = kEntryCount)
       /\ (sa_engine'.compacted /\ ~sa_engine.compacted) =>
             (sa_engine.flushed /\ Flatten(sa_engine.written) = Dataset)
       /\ QueryAnswered =>
             (sa_engine.flushed /\ sa_engine.compacted /\ sa_handles = {"rw"}
              /\ Flatten(sa_engine.written) = Dataset)]_vars

\* The three queries of a run have been answered.
C8_Witness ==
    /\ sa_pc = "reset"
    /\ sa_result.total_sst_bytes > 0
    /\ sa_result.estimated_keys = kEntryCount
    /\ sa_result.table_readers_mem > 0

\* ----------------------------------------------------------------- C9 ----
\* C9 (space_amp): when the run of a configuration whose instance was created
\* ends, by returning or by a fatal error, its engine directory does not exist
\* if keep_dbs is unset, and is left in place by a run that returns if
\* keep_dbs is set.
C9_DirectoryGoneAfterRun ==
    [][(sa_pc \in InRunOnce \ {"open"} /\ sa_pc' \in {"loop", "exited"}) =>
          IF sa_cfg.keep_dbs
          THEN sa_pc' = "loop" => BlockSize \in sa_dirs'
          ELSE BlockSize \notin sa_dirs']_vars

\* What the code does: a run that returns leaves no directory (keep_dbs
\* unset) or leaves its directory (keep_dbs set).
C9_DirectoryGoneAfterReturn ==
    [][(sa_pc \in InRunOnce /\ sa_pc' = "loop") =>
          IF sa_cfg.keep_dbs THEN BlockSize \in sa_dirs' ELSE BlockSize \notin sa_dirs']_vars

\* A run ended by a failed flush has left its directory behind.
C9_Witness ==
    /\ ~sa_cfg.keep_dbs
    /\ sa_pc = "exited"
    /\ sa_stderr = << "Flush failed" >>
    /\ sa_dirs # {}

\* ---------------------------------------------------------------- C10 ----
BulkLoadFailures ==
    { "Write failed", "Flush failed", "CompactRange failed",
      "Failed to get rocksdb.total-sst-files-size",
      "Failed to get rocksdb.estimate-num-keys",
      "Failed to get rocksdb.estimate-table-readers-mem" }

BulkLoadFailed == \E n \in 1 .. Len(sa_stderr) : sa_stderr[n] \in BulkLoadFailures

\* C10: once a batched write, the flush, the compaction or a property query
\* of a run has failed, the process has ended with exit code 1, its instance
\* is closed, no result row has been printed for any configuration, and
\* nothing happens any more: no retry, no further engine operation, no later
\* configuration.
C10_BulkLoadFailurePolicy ==
    /\ [](BulkLoadFailed =>
            /\ sa_pc = "exited"
            /\ sa_exit = "EXIT_FAILURE"
            /\ sa_handles = {}
            /\ sa_stdout = <<>>
            /\ Len(sa_stderr) = 1)
    /\ [][~BulkLoadFailed]_vars

\* A write failed in a list of two valid block sizes.
C10_Witness ==
    /\ sa_stderr = << "Write failed" >>
    /\ Len(sa_cfg.block_sizes) = 2
    /\ \A n \in 1 .. 2 : sa_cfg.block_sizes[n] > 0

\* ---------------------------------------------------------------- C11 ----
WorkerFailures ==
    {Failure(what, status) :
       what \in {"Read failed", "Merge failed", "RMW read failed", "Put failed"},
       status \in {"error", "notfound"}}

WorkerFailed == \E n \in 1 .. Len(stderr) : stderr[n] \in WorkerFailures

\* Titles of the result tables printed so far.
PrintedTitles == {stdout[n].title : n \in 1 .. Len(stdout)}

\* C11: an engine call of a worker fails only inside a running phase; in that
\* step the process ends with a non-zero code, the phase is not aggregated
\* (the metrics gathered for the strategy are gone with the process), nothing
\* is printed, so no table of the running strategy exists, the instance is
\* closed; and nothing happens afterwards: no retry, no later mix, no later
\* strategy.
C11_WorkerFailurePolicy ==
    /\ [](WorkerFailed =>
            /\ mpc = "exited"
            /\ exit_code \notin {"running", "EXIT_SUCCESS"}
            /\ ~db_open
            /\ metrics = <<>>
            /\ \A t \in Workers : worker[t] = NoWorker
            /\ Len(stderr) = 1)
    /\ [][/\ ~WorkerFailed
          /\ WorkerFailed' =>
               /\ mpc = "Running"
               /\ stdout' = stdout
               /\ (IF use_merge THEN "Merge" ELSE "Read-Modify-Write") \notin PrintedTitles'
               /\ use_merge => PrintedTitles' = {"Read-Modify-Write"}]_vars

\* A Merge call failed under the merge strategy, after the RMW table was
\* printed.
C11_Witness ==
    /\ stderr = << "Merge failed: error" >>
    /\ exit_code = "SIGABRT"
    /\ PrintedTitles = {"Read-Modify-Write"}
    /\ cfg.mix_filter = ""

\* ---------------------------------------------------------------- C12 ----
NotFoundFailures == {Failure("Read failed", "notfound"), Failure("RMW read failed", "notfound")}

\* No key of the instance has a value: every Get returns not-found.
AllAbsent == \A k \in DOMAIN store : ~EngineFound(store, k)

\* C12: a Get that returns not-found never ends the process. A worker's
\* iteration that ends without a write is a read: it counts one read and
\* leaves the store and the driver alone, found or not. The Get of a
\* read-modify-write takes the stored value as current, and 0 when the key is
\* not found; its Put then stores current + 1 (1 for a key not found) under
\* that key and counts one write and no read.
C12_NotFoundTolerance ==
    /\ [](\A n \in 1 .. Len(stderr) : stderr[n] \notin NotFoundFailures)
    /\ [][\A t \in Workers :
            /\ (worker[t].pc = "body" /\ worker'[t].pc = "check"
                  /\ worker'[t].stats.writes = worker[t].stats.writes) =>
                 /\ worker'[t].stats.reads = worker[t].stats.reads + 1
                 /\ store' = store
                 /\ mpc' = mpc
            /\ (worker[t].pc = "body" /\ worker'[t].pc = "rmw_put") =>
                 /\ worker'[t].current =
                      IF EngineFound(store, worker'[t].key)
                      THEN Resolved(store, worker'[t].key)
                      ELSE 0
                 /\ worker'[t].stats = worker[t].stats
                 /\ store' = store
            /\ RmwPutStep(t) =>
                 /\ store' = EnginePut(store, worker[t].key, Encode(worker[t].current + 1))
                 /\ (~EngineFound(store, worker[t].key) /\ worker[t].current = 0) =>
                       Resolved(store', worker[t].key) = 1
                 /\ worker'[t].stats.writes = worker[t].stats.writes + 1
                 /\ worker'[t].stats.reads = worker[t].stats.reads]_vars

\* No key has a value yet: one worker has counted a read that found nothing,
\* the other stands before its Put with current = 0 after a Get that found
\* nothing.
C12_Witness ==
    /\ ~use_merge /\ cfg.key_space = 0 /\ mpc = "Running"
    /\ AllAbsent
    /\ worker[0].pc = "check" /\ worker[0].stats.reads = 1
    /\ worker[1].pc = "rmw_put" /\ worker[1].current = 0

\* ---------------------------------------------------------------- C13 ----
\* Every key of the dataset is present in the instance.
FullyPopulated(engine) == \A i \in 0 .. kEntryCount - 1 : FormatKey(i) \in StoredKeys(engine)

\* C13: the probe runs only with read_ops > 0 (otherwise no instance is
\* reopened and no Get is issued) and finds every key of the dataset present;
\* it starts at 0 Gets, each step of the read loop is one Get, the probe
\* returns only after exactly read_ops Gets, and a Get that does not succeed
\* ends the process at that read with exit code 1; no Get ever returns
\* not-found.
C13_ReadProber ==
    /\ [](sa_cfg.read_ops = 0 => (sa_pc \notin {"ro_open", "reads"} /\ "ro" \notin sa_handles))
    /\ [](sa_pc = "reads" =>
            (sa_handles = {"ro"} /\ FullyPopulated(sa_engine) /\ sa_i <= sa_cfg.read_ops))
    /\ [](\A n \in 1 .. Len(sa_stderr) : sa_stderr[n] # Failure("Read failed", "notfound"))
    /\ [][/\ (sa_pc = "ro_open" /\ sa_pc' = "reads") => sa_i' = 0
          /\ sa_pc = "reads" =>
               \/ /\ sa_pc' = "reads"
                  /\ sa_i < sa_cfg.read_ops
                  /\ sa_i' = sa_i + 1
               \/ /\ sa_pc' = "cleanup"
                  /\ sa_i = sa_cfg.read_ops
                  /\ sa_result'.read_ops_per_sec = sa_cfg.read_ops
               \/ /\ sa_pc' = "exited"
                  /\ sa_i < sa_cfg.read_ops
                  /\ sa_exit' = "EXIT_FAILURE"
                  /\ sa_stderr' = Append(sa_stderr, Failure("Read failed", "error"))]_vars

\* A probe of two reads has returned.
C13_Witness ==
    /\ sa_pc = "cleanup"
    /\ sa_cfg.read_ops = 2
    /\ sa_result.read_ops_per_sec = 2

\* ---------------------------------------------------------------- C14 ----
StrategyTitle(merge) == IF merge THEN "Merge" ELSE "Read-Modify-Write"

\* Keys 0 .. key_space - 1 hold 0 and nothing else is stored.
PrepopulatedWithZero(st, key_space) ==
    \A i \in KeyUniverse :
        st[to_string(i)] =
            IF i < key_space
            THEN [has_base |-> TRUE, base |-> Encode(0), ops |-> <<>>]
            ELSE Absent

\* Positions of the driver inside RunPhase.
InRunPhase == {"Setup", "Running", "Joined", "Aggregated"}

\* C14: an instance is opened only at the start of RunBenchmark, empty, for a
\* strategy whose table has not been printed yet; the strategy changes only
\* from RMW to merge, after the RMW instance was closed, its directory removed
\* and its table printed; the first phase starts on keys 0 .. key_space - 1
\* holding 0; while the driver is inside RunPhase the instance stays open and
\* the strategy the same; going from one mix to the next leaves the stored
\* values untouched; outside a running phase no value changes (the engine
\* only folds operands); a run that succeeds has printed exactly the RMW
\* table and then the merge table, each with one row per selected mix.
\* (A step inside a running phase is the case where only the fourth of these
\* has something to say; it is written first.)
C14_OneInstancePerStrategy ==
    /\ [](exit_code = "EXIT_SUCCESS" =>
            /\ Len(stdout) = 2
            /\ stdout[1].title = StrategyTitle(FALSE)
            /\ stdout[2].title = StrategyTitle(TRUE)
            /\ \A n \in 1 .. 2 :
                 stdout[n].rows =
                   [i \in 1 .. Len(SelectWorkloads(cfg.mix_filter)) |->
                      SelectWorkloads(cfg.mix_filter)[i].name])
    /\ [][IF mpc = "Running" /\ mpc' = "Running"
          THEN /\ db_open /\ db_open'
               /\ use_merge' = use_merge
               /\ workloads' = workloads
          ELSE /\ (db_open' /\ ~db_open) =>
                    /\ mpc = "rb_open" /\ mpc' = "prepopulate"
                    /\ store' = EmptyStore
                    /\ use_merge' = use_merge
                    /\ StrategyTitle(use_merge) \notin PrintedTitles
               /\ (use_merge' /\ ~use_merge) =>
                    /\ mpc = "remove" /\ mpc' = "rb_open"
                    /\ ~db_open
                    /\ "rmw" \notin dirs'
                    /\ PrintedTitles = {StrategyTitle(FALSE)}
               /\ (mpc = "prepopulate" /\ mpc' = "Setup") =>
                    /\ PrepopulatedWithZero(store', cfg.key_space)
                    /\ widx' = 1
               /\ (mpc \in InRunPhase /\ mpc' # "exited") =>
                    /\ db_open /\ db_open'
                    /\ use_merge' = use_merge
                    /\ workloads' = workloads
               /\ (mpc = "Aggregated" /\ mpc' = "Setup") =>
                    /\ store' = store
                    /\ widx' = widx + 1
               /\ (mpc \in {"Setup", "Joined", "Aggregated", "print"} /\ mpc' # "exited") =>
                    \A k \in DOMAIN store :
                      /\ EngineFound(store', k) = EngineFound(store, k)
                      /\ Resolved(store', k) = Resolved(store, k)]_vars

\* In the second mix a worker has read the value 1 that was written in the
\* first mix.
C14_Witness ==
    /\ ~use_merge /\ mpc = "Running" /\ widx = 2
    /\ Len(metrics) = 1 /\ metrics[1].write_ops_per_sec[1] = 1
    /\ worker[0].pc = "rmw_put" /\ worker[0].current = 1

\* ---------------------------------------------------------------- C15 ----
\* Filters the lookup is evaluated on: empty, the catalog names, and names
\* that only resemble a catalog name.
FilterSamples == MixFilters \cup {"10/90", "90/10", "50/50 ", "50", "0.50", "10/90,50/50"}

CatalogNames == {kWorkloads[n].name : n \in 1 .. Len(kWorkloads)}

\* C15: the catalog is ("10/90", 10%), ("50/50", 50%), ("90/10", 90%);
\* SelectWorkloads("") is the catalog; SelectWorkloads of a catalog name is
\* the one entry of that name; for every other non-empty filter the lookup
\* fails. After the lookup main holds exactly its result for the configured
\* filter; when it fails the process ends with exit code 1 and the message,
\* and no instance is ever opened and no directory created or removed.
C15_SelectWorkloads ==
    /\ [](/\ kWorkloads = << [name |-> "10/90", read_ratio |-> 10],
                             [name |-> "50/50", read_ratio |-> 50],
                             [name |-> "90/10", read_ratio |-> 90] >>
          /\ \A f \in FilterSamples :
               LET selected == SelectWorkloads(f) IN
                 IF f = "" THEN selected = kWorkloads
                 ELSE IF f \in CatalogNames
                      THEN /\ Len(selected) = 1
                           /\ selected[1].name = f
                           /\ \E n \in 1 .. Len(kWorkloads) : kWorkloads[n] = selected[1]
                      ELSE selected = <<>>
          /\ (mpc \notin {"main", "exited"}) =>
               (workloads = SelectWorkloads(cfg.mix_filter) /\ workloads # <<>>)
          /\ (SelectWorkloads(cfg.mix_filter) = <<>> /\ mpc # "main") =>
               /\ mpc = "exited"
               /\ exit_code = "EXIT_FAILURE"
               /\ stderr = << "Unknown workload mix filter" >>
               /\ stdout = <<>>)
    /\ [][SelectWorkloads(cfg.mix_filter) = <<>> => (~db_open' /\ dirs' = dirs)]_vars

\* The lookup of an unknown filter has failed.
C15_Witness ==
    /\ cfg.mix_filter = "not-a-mix"
    /\ mpc = "exited"
    /\ stderr = << "Unknown workload mix filter" >>

\* ---------------------------------------------------------------- C16 ----
\* Indices the key generator is evaluated on: those of the modelled dataset
\* and indices up to the last one of the real dataset.
KeyIndexSamples == (0 .. kEntryCount - 1) \cup {9, 10, 99, 100, 1000000, 33554431}

\* The integer a string of decimal digits stands for.
RECURSIVE ParseDecimalFrom(_, _)
ParseDecimalFrom(acc, digits) ==
    IF digits = <<>> THEN acc ELSE ParseDecimalFrom(10 * acc + Head(digits), Tail(digits))

ParseDecimal(digits) == ParseDecimalFrom(0, digits)

\* Key(i) has 32 characters, all decimal digits, and reads as i.
KeysWellFormed ==
    \A i \in KeyIndexSamples :
        /\ Len(FormatKey(i)) = 32
        /\ \A n \in 1 .. Len(FormatKey(i)) : FormatKey(i)[n] \in 0 .. 9
        /\ ParseDecimal(FormatKey(i)) = i

\* Distinct indices have distinct keys.
KeysDistinct == \A i, j \in KeyIndexSamples : i # j => FormatKey(i) # FormatKey(j)

\* C16: Key(i) has 32 characters, all decimal digits, and reads as i; distinct
\* indices have distinct keys; the n-th entry the loader has submitted carries
\* Key(n - 1), and while the prober reads, every index it can draw has its
\* key in the instance, held by the entry of that index.
C16_KeyGenerator ==
    /\ KeysWellFormed
    /\ KeysDistinct
    /\ LET submitted == Flatten(sa_engine.written) \o sa_batch IN
         \A n \in 1 .. Len(submitted) : submitted[n].key = FormatKey(n - 1)
    /\ sa_pc = "reads" =>
         \A i \in KeyIndexDist :
           /\ FormatKey(i) \in StoredKeys(sa_engine)
           /\ Flatten(sa_engine.written)[i + 1].key = FormatKey(i)

\* The prober has read a key the loader wrote.
C16_Witness ==
    /\ sa_pc = "reads"
    /\ sa_i = 1
    /\ Len(Flatten(sa_engine.written)) = kEntryCount

\* ---------------------------------------------------------------- C17 ----
\* Positions of RunOnce after the load loop and the trailing write.
AfterLoad ==
    {"flush", "compact", "prop_sst", "prop_keys", "prop_mem", "reset", "ro_open", "reads",
     "cleanup"}

\* The first n entries of the dataset.
DatasetPrefix(n) == SubSeq(Dataset, 1, n)

\* C17: while the loader runs, what it has submitted to the engine followed by
\* what waits in the batch buffer is the dataset up to the loop index, in
\* index order, each entry once; every submitted batch has exactly batch_size
\* entries, and the buffer holds fewer. Once the loop and the trailing write
\* are done (from Flush on), the submitted entries are the whole dataset,
\* (Key(i), Value(i)) for i = 0 .. kEntryCount - 1 in ascending order, the
\* buffer is empty, no batch is empty or larger than batch_size, and every
\* batch but the last has exactly batch_size entries.
C17_BulkLoadCompleteness ==
    /\ sa_pc = "load" =>
         /\ Flatten(sa_engine.written) \o sa_batch = DatasetPrefix(sa_i)
         /\ Len(sa_batch) < batch_size
         /\ \A n \in 1 .. Len(sa_engine.written) : Len(sa_engine.written[n]) = batch_size
    /\ sa_pc \in AfterLoad =>
         /\ Flatten(sa_engine.written) = Dataset
         /\ \A i \in 0 .. kEntryCount - 1 :
              Flatten(sa_engine.written)[i + 1] = [key |-> FormatKey(i), value |-> FillValue(i)]
         /\ sa_batch = <<>>
         /\ \A n \in 1 .. Len(sa_engine.written) :
              /\ Len(sa_engine.written[n]) \in 1 .. batch_size
              /\ n < Len(sa_engine.written) => Len(sa_engine.written[n]) = batch_size

\* The load has ended with a trailing partial batch and Flush is next.
C17_Witness ==
    /\ sa_pc = "flush"
    /\ Len(Flatten(sa_engine.written)) = kEntryCount
    /\ Len(sa_engine.written) > 1
    /\ Len(sa_engine.written[Len(sa_engine.written)]) < batch_size

\* ---------------------------------------------------------------- C18 ----
\* 2^64 - 1 and 2^63 as stored values.
MaxWord == [n \in 1 .. WordBytes |-> ByteBase - 1]
HighWord == [n \in 1 .. WordBytes |-> IF n = WordBytes THEN ByteBase \div 2 ELSE 0]

\* Values the merge operator is evaluated on: 1, the two words above, a slice
\* shorter than a word and a slice longer than a word.
WordSamples == {Encode(1), MaxWord, HighWord, <<7>>, <<2, 0, 0, 0, 0, 0, 0, 0, 9>>}

\* Operand lists of up to three operands.
OperandLists == UNION {[1 .. n -> WordSamples] : n \in 0 .. 3}

\* The existing value: absent, or a sampled value.
ExistingSamples ==
    {[has |-> FALSE, value |-> <<>>]} \cup {[has |-> TRUE, value |-> v] : v \in WordSamples}

Reorderings(n) == {p \in [1 .. n -> 1 .. n] : \A i, j \in 1 .. n : i # j => p[i] # p[j]}

\* Sum of the decoded operands as an integer (for small values).
RECURSIVE IntSum(_)
IntSum(operand_list) ==
    IF operand_list = <<>> THEN 0 ELSE Decode(Head(operand_list)) + IntSum(Tail(operand_list))

SmallLists == UNION {[1 .. n -> {Encode(v) : v \in 0 .. 3}] : n \in 0 .. 3}

\* Full resolution is base plus the sum of the operands: as integers while
\* the sum is small, and wrapping around at 2^64.
FoldIsSum ==
    /\ \A ops \in SmallLists, b \in 0 .. 3 :
         /\ Decode(FullMergeV2(TRUE, Encode(b), ops)) = b + IntSum(ops)
         /\ Decode(FullMergeV2(FALSE, <<>>, ops)) = IntSum(ops)
    /\ FullMergeV2(TRUE, MaxWord, << Encode(1) >>) = Encode(0)
    /\ FullMergeV2(TRUE, Encode(1), << MaxWord >>) = Encode(0)
    /\ FullMergeV2(FALSE, <<>>, << HighWord, HighWord >>) = Encode(0)
    /\ FullMergeV2(FALSE, <<>>, << MaxWord, Encode(1), Encode(1) >>) = Encode(1)
    /\ FullMergeV2(FALSE, <<>>, << MaxWord, MaxWord >>)
         = [n \in 1 .. WordBytes |-> IF n = 1 THEN ByteBase - 2 ELSE ByteBase - 1]
    /\ \A ops \in OperandLists :
         FullMergeV2(FALSE, <<>>, ops) = FullMergeV2(TRUE, Encode(0), ops)

\* Resolving a prefix of the operands first and the rest later gives what
\* resolving all at once gives.
FoldSplits ==
    \A e \in ExistingSamples, ops \in OperandLists, n \in 0 .. 3 :
        n <= Len(ops) =>
            FullMergeV2(TRUE,
                        FullMergeV2(e.has, e.value, SubSeq(ops, 1, n)),
                        SubSeq(ops, n + 1, Len(ops)))
              = FullMergeV2(e.has, e.value, ops)

\* Every permutation of the operands resolves to the same value.
FoldCommutes ==
    \A e \in ExistingSamples, ops \in OperandLists :
        \A p \in Reorderings(Len(ops)) :
            FullMergeV2(e.has, e.value, [i \in 1 .. Len(ops) |-> ops[p[i]]])
              = FullMergeV2(e.has, e.value, ops)

PartialMergeDeclines == \A l, r \in WordSamples : ~PartialMerge(l, r)

\* The operand of every Merge call of the benchmark.
OperandOne == Encode(1)

\* C18: full resolution gives base (0 when absent) plus the sum of the
\* operands modulo 2^64, whatever the split into a first and a later
\* resolution and whatever the order of the operands; PartialMerge always
\* declines. In the running benchmark every pending operand is an uncombined
\* Encode(1), and a step in which the engine folds the operands of a key
\* leaves the value the key resolves to unchanged.
C18_MergeFold ==
    /\ [](/\ FoldIsSum
          /\ FoldSplits
          /\ FoldCommutes
          /\ PartialMergeDeclines
          /\ \A k \in DOMAIN store :
               \A n \in 1 .. Len(store[k].ops) : store[k].ops[n] = OperandOne)
    /\ [][\A k \in DOMAIN store :
            (Len(store'[k].ops) < Len(store[k].ops) /\ db_open') =>
               /\ store'[k].ops = <<>>
               /\ EngineGet(store', k) = EngineGet(store, k)]_vars

\* Under the merge strategy a key holds a value folded from an earlier
\* operand and one more pending operand: it resolves to 2.
C18_Witness ==
    /\ use_merge /\ db_open
    /\ \E k \in DOMAIN store :
         /\ store[k].has_base /\ Decode(store[k].base) = 1
         /\ Len(store[k].ops) = 1
         /\ Resolved(store, k) = 2

\* ---------------------------------------------------------------- C19 ----
\* The driver pushes the metrics of the phase.
Aggregates == mpc = "Joined" /\ mpc' = "Aggregated"

\* C19: a worker starts with all counters 0 and the result slots are zeroed
\* at the head of every phase; the step that aggregates a phase appends one
\* Metrics entry and leaves the earlier ones alone; its read and write rates
\* are the sums, over the cfg.threads workers of this phase, of the reads and
\* writes the workers counted, over seconds_per_phase; its operands-per-key
\* is the sum of the workers' merge-operand counts over key_space under the
\* merge strategy with key_space > 0, and 0 otherwise.
C19_PhaseAggregation ==
    [][/\ \A t \in Workers :
            (worker[t].pc = "none" /\ worker'[t].pc # "none") =>
               (worker'[t].stats = ZeroStats /\ thread_stats[t] = ZeroStats)
       /\ Aggregates =>
            /\ Len(metrics') = Len(metrics) + 1
            /\ SubSeq(metrics', 1, Len(metrics)) = metrics
            /\ Len(metrics') = widx
            /\ LET m == metrics'[Len(metrics')] IN
                 /\ m.read_ops_per_sec
                      = << LocalCount(worker, cfg.threads, "reads"), cfg.seconds_per_phase >>
                 /\ m.write_ops_per_sec
                      = << LocalCount(worker, cfg.threads, "writes"), cfg.seconds_per_phase >>
                 /\ (use_merge /\ cfg.key_space > 0) =>
                      m.avg_merge_ops_per_key
                        = << LocalCount(worker, cfg.threads, "merge_operands"), cfg.key_space >>
                 /\ (~use_merge \/ cfg.key_space = 0) =>
                      m.avg_merge_ops_per_key[1] = 0]_vars

\* A merge phase in which two workers each merged once has been aggregated.
C19_Witness ==
    /\ use_merge /\ mpc = "Aggregated" /\ cfg.threads = 2 /\ cfg.key_space = 2
    /\ worker[0].stats.merge_operands = 1
    /\ worker[1].stats.merge_operands = 1
    /\ metrics[Len(metrics)].avg_merge_ops_per_key = << 2, 2 >>
    /\ metrics[Len(metrics)].write_ops_per_sec = << 2, 1 >>

\* ---------------------------------------------------------------- C20 ----
\* Block sizes of the configurations before the current one.
EarlierBlockSizes == {sa_cfg.block_sizes[j] : j \in 1 .. sa_idx - 1}

\* C20: at most one handle is open at any moment, and none between two
\* configurations. The read-write handle is opened only at the start of a
\* run, with no handle open and, unless keep_dbs is set, with no directory of
\* an earlier configuration left; the read-only handle is opened only with
\* no handle open, after the queries, on the existing directory, and only
\* when read_ops > 0; a property query is answered while the read-write
\* handle (and only it) is open; a directory disappears only in a step that
\* starts and ends with no handle open; main's loop moves on by one
\* configuration, only from the end of a run, with no handle open.
C20_SingleHandle ==
    /\ [](/\ Cardinality(sa_handles) <= 1
          /\ sa_pc \in {"loop", "open", "exited"} => sa_handles = {}
          /\ sa_pc \in {"load", "flush", "compact", "prop_sst", "prop_keys", "prop_mem",
                        "reset"} => sa_handles = {"rw"}
          /\ sa_pc = "reads" => sa_handles = {"ro"})
    /\ [][/\ ("rw" \in sa_handles' /\ "rw" \notin sa_handles) =>
               /\ sa_handles = {}
               /\ sa_pc = "open"
               /\ ~sa_cfg.keep_dbs => (EarlierBlockSizes \ {BlockSize}) \cap sa_dirs' = {}
          /\ ("ro" \in sa_handles' /\ "ro" \notin sa_handles) =>
               /\ sa_handles = {}
               /\ sa_pc = "ro_open"
               /\ sa_cfg.read_ops > 0
               /\ BlockSize \in sa_dirs
               /\ sa_result.amplification # ZeroResult.amplification
          /\ QueryAnswered => (sa_handles = {"rw"} /\ sa_handles' = {"rw"})
          /\ (sa_dirs \ sa_dirs' # {}) => (sa_handles = {} /\ sa_handles' = {})
          /\ (sa_idx' # sa_idx /\ sa_pc' # "exited") =>
               /\ sa_idx' = sa_idx + 1
               /\ sa_pc = "cleanup"
               /\ sa_handles = {} /\ sa_handles' = {}]_vars

\* The second configuration's read-only handle is open, after the first
\* configuration's directory was removed.
C20_Witness ==
    /\ sa_idx = 2
    /\ sa_handles = {"ro"}
    /\ ~sa_cfg.keep_dbs
    /\ sa_cfg.block_sizes[1] # sa_cfg.block_sizes[2]
    /\ sa_dirs = {sa_cfg.block_sizes[2]}


\* ---------------------------------------------------------------- C21 ----
\* Puts completed by workers on the open instance, over all keys.
RECURSIVE PutsOver(_, _)
PutsOver(counts, keys) ==
    IF keys = {} THEN 0
    ELSE LET k == CHOOSE x \in keys : TRUE IN counts[k] + PutsOver(counts, keys \ {k})

\* The write count W of the instance once the workers of the phase are
\* joined: the aggregated phases, plus the result slots not yet aggregated.
WritesAfterJoin ==
    IF mpc = "Joined"
    THEN WritesOfPhases(metrics) + SumField(thread_stats, cfg.threads, "writes")
    ELSE WritesOfPhases(metrics)

\* C21: RMW strategy, any number of workers, any interleaving: in every
\* state of the open instance the value stored under a key is at most the
\* number of Puts workers have completed on that key since pre-population
\* (and a worker between its Get and its Put holds a value that is at most
\* that number); once the workers of a phase are joined, W is the number of
\* Puts completed, so the sum of the values of all keys is at most W; with
\* one worker thread the sum equals W.
C21_RmwUpperBound ==
    (~use_merge /\ db_open) =>
        /\ \A k \in DOMAIN store : Resolved(store, k) <= puts[k]
        /\ \A t \in Workers :
             worker[t].pc = "rmw_put" => worker[t].current <= puts[worker[t].key]
        /\ mpc \in {"Joined", "Aggregated", "print"} =>
             /\ PutsOver(puts, DOMAIN puts) = WritesAfterJoin
             /\ SumResolved <= WritesAfterJoin
             /\ cfg.threads = 1 => SumResolved = WritesAfterJoin

\* Two workers have been joined after two Puts on the same key, of which one
\* was lost: the key holds 1, below its two Puts and below W = 2.
C21_Witness ==
    /\ ~use_merge /\ db_open /\ cfg.threads = 2
    /\ mpc = "Joined"
    /\ \E k \in DOMAIN store : puts[k] = 2 /\ Resolved(store, k) = 1
    /\ WritesAfterJoin = 2
    /\ SumResolved = 1


\* ---------------------------------------------------------------- C22 ----
\* The thread objects that exist (threads vector of the running phase).
ExistingWorkers == {t \in Workers : worker[t].pc # "none"}

\* The worker was started with the parameters of the phase the driver is in.
OfCurrentPhase(w) ==
    /\ widx \in 1 .. Len(workloads)
    /\ w.use_merge = use_merge
    /\ w.read_ratio = workloads[widx].read_ratio

\* The phases of the running strategy that have been aggregated.
PhasesAggregated ==
    CASE mpc \in {"Setup", "Running", "Joined"} -> widx - 1
      [] mpc = "Aggregated" -> widx
      [] mpc = "print" -> Len(workloads)
      [] OTHER -> Len(metrics)

\* C22: phases and strategies never overlap. A worker exists only between
\* its spawn and the end of its own phase's loop iteration: the driver is then
\* in that phase (Running, Joined or Aggregated), the workers that exist are
\* exactly the first nspawned <= cfg.threads ones, every one of them was
\* started with the strategy and the read ratio of that phase, and every
\* earlier mix of the strategy has been aggregated (one metrics entry each);
\* between two phases no worker exists. An instance is open only in its own
\* directory and no other engine directory exists meanwhile; the driver is in
\* the merge strategy only with the RMW table printed and the RMW directory
\* removed; a freshly opened instance is empty and holds, during
\* pre-population, nothing but zeros.
C22_NoOverlap ==
    /\ \A t \in ExistingWorkers :
         /\ mpc \in {"Running", "Joined", "Aggregated"}
         /\ db_open
         /\ OfCurrentPhase(worker[t])
    /\ mpc \in {"Running", "Joined", "Aggregated"} =>
         /\ ExistingWorkers = {t \in Workers : t < nspawned}
         /\ nspawned <= cfg.threads
         /\ Cardinality(ExistingWorkers) <= cfg.threads
    /\ mpc \in {"Joined", "Aggregated"} => \A t \in ExistingWorkers : worker[t].pc = "done"
    /\ Len(metrics) = PhasesAggregated
    /\ db_open => dirs = {DbPath(use_merge)}
    /\ use_merge => /\ "rmw" \notin dirs
                    /\ "Read-Modify-Write" \in PrintedTitles
    /\ mpc = "rb_open" => ~db_open /\ store = EmptyStore
    /\ mpc = "prepopulate" =>
         \A k \in DOMAIN store :
           EngineFound(store, k) => store[k] = [has_base |-> TRUE, base |-> Encode(0), ops |-> <<>>]

\* The merge strategy is in its second mix: both workers of the phase exist,
\* one inside an iteration; the first mix is aggregated, the RMW table is
\* printed and only the merge directory exists.
C22_Witness ==
    /\ use_merge /\ cfg.threads = 2 /\ widx = 2
    /\ mpc = "Running"
    /\ ExistingWorkers = {0, 1}
    /\ worker[0].pc = "body"
    /\ worker[1].pc = "check"
    /\ \A t \in {0, 1} : worker[t].read_ratio = 50 /\ worker[t].use_merge
    /\ Len(metrics) = 1
    /\ dirs = {"merge"}
    /\ PrintedTitles = {"Read-Modify-Write"}

====
